---- MODULE Spec2Model ----
(***************************************************************************)
(* A model of hayagriva's src/output/mod.rs: the two citation marker       *)
(* formatters (KeyCitationFormatter, NumericalCitationFormatter) and the   *)
(* DisplayString rich-text buffer with its ANSI / VT100 renderer.          *)
(*                                                                         *)
(* Strings are sequences of one-character strings, so that formatting,    *)
(* joining and slicing are computed the way the code computes them.        *)
(* Option<T> is a sequence of length 0 (None) or 1 (Some(x)).              *)
(***************************************************************************)
EXTENDS Integers, Sequences, FiniteSets, TLC

VARIABLES
    entries,            \* the keys of the formatter's entries map
    citation,           \* the sequence of AtomicCitation handed to get_reference
    result,             \* which formatter ran, and the Result it returned
    ds,                 \* the DisplayString under construction
    debug_assertions,   \* whether the build evaluates debug_assert!
    panicked,           \* Some(f) once start_format(f)'s debug_assert! failed
    rendered,           \* Some(print_ansi_vt100(ds)) once it was rendered
    args,               \* operands of a pure DisplayString operation
    joiner,             \* the separator handed to DisplayString::join
    ret                 \* the operation applied to args, and what it returned

vars == <<entries, citation, result, ds, debug_assertions, panicked,
          rendered, args, joiner, ret>>

citeVars == <<entries, citation, result>>
buildVars == <<ds, debug_assertions, panicked, rendered>>
pureVars == <<args, joiner, ret>>

(***************************************************************************)
(* Bounds of the model.                                                    *)
(***************************************************************************)
\* Longest citation sequence handed to a formatter.
MaxCite == 3
\* How many distinct citation numbers the inputs use.
MaxNum == 3
\* The numbers are NumBase + 1 .. NumBase + MaxNum: one and two digits.
NumBase == 8
\* Longest text of a DisplayString under construction.
MaxLen == 2
\* Most spans, committed and pending together, of a DisplayString under
\* construction.
MaxSpans == 2
\* Longest item list handed to DisplayString::join while building.
MaxItems == 2
\* Longest operand list of a concatenation or join applied on its own.
MaxArgs == 3

(***************************************************************************)
(* Strings.                                                                *)
(***************************************************************************)
None == <<>>
Some(x) == <<x>>

Digit(d) ==
    CASE d = 0 -> "0" [] d = 1 -> "1" [] d = 2 -> "2" [] d = 3 -> "3"
      [] d = 4 -> "4" [] d = 5 -> "5" [] d = 6 -> "6" [] d = 7 -> "7"
      [] d = 8 -> "8" [] d = 9 -> "9"

\* usize's Display: the decimal digits, most significant first.
RECURSIVE to_string(_)
to_string(n) ==
    IF n < 10 THEN <<Digit(n)>>
    ELSE to_string(n \div 10) \o <<Digit(n % 10)>>

\* [String]::join(sep)
RECURSIVE str_join(_, _)
str_join(items, sep) ==
    IF Len(items) = 0 THEN <<>>
    ELSE IF Len(items) = 1 THEN items[1]
    ELSE items[1] \o sep \o str_join(Tail(items), sep)

(***************************************************************************)
(* CitationError and Result<String, CitationError>.                        *)
(***************************************************************************)
Ok(s) == [tag |-> "Ok", val |-> s]
KeyNotFound(key) == [tag |-> "KeyNotFound", val |-> key]
NoNumber(key) == [tag |-> "NoNumber", val |-> key]

AtomicCitation(key, supplement, number) ==
    [key |-> key, supplement |-> supplement, number |-> number]

(***************************************************************************)
(* KeyCitationFormatter::get_reference                                     *)
(***************************************************************************)
\* Mutant: the supplement is glued to the key without the separating space.
KeyItem_NoSpace(atomic) ==
    IF atomic.supplement # None
    THEN atomic.key \o <<"(">> \o atomic.supplement[1] \o <<")">>
    ELSE atomic.key

KeyItem(atomic) ==
    IF atomic.supplement # None
    THEN atomic.key \o <<" ", "(">> \o atomic.supplement[1] \o <<")">>
    ELSE atomic.key

\* Mutant: an absent key is skipped instead of ending the call.
RECURSIVE KeyLoop_SkipAbsent(_, _, _, _)
KeyLoop_SkipAbsent(ents, cit, i, items) ==
    IF i > Len(cit) THEN Ok(str_join(items, <<",", " ">>))
    ELSE IF ~(cit[i].key \in ents) THEN KeyLoop_SkipAbsent(ents, cit, i + 1, items)
    ELSE KeyLoop_SkipAbsent(ents, cit, i + 1, Append(items, KeyItem(cit[i])))

RECURSIVE KeyLoop(_, _, _, _)
KeyLoop(ents, cit, i, items) ==
    IF i > Len(cit) THEN Ok(str_join(items, <<",", " ">>))
    ELSE IF ~(cit[i].key \in ents) THEN KeyNotFound(cit[i].key)
    ELSE KeyLoop(ents, cit, i + 1, Append(items, KeyItem(cit[i])))

KeyCitationFormatter_get_reference(ents, cit) == KeyLoop(ents, cit, 1, <<>>)

(***************************************************************************)
(* NumericalCitationFormatter::get_reference                               *)
(***************************************************************************)
\* Mutant: the number is required before the key is looked up.
RECURSIVE CollectIds_NumberFirst(_, _, _, _)
CollectIds_NumberFirst(ents, cit, i, ids) ==
    IF i > Len(cit) THEN [tag |-> "Ids", val |-> ids]
    ELSE IF cit[i].number = None THEN NoNumber(cit[i].key)
    ELSE IF ~(cit[i].key \in ents) THEN KeyNotFound(cit[i].key)
    ELSE CollectIds_NumberFirst(ents, cit, i + 1,
                    Append(ids, <<cit[i].number[1], cit[i].supplement>>))

\* The first loop: Ok(ids), or the error of the first offending item.
RECURSIVE CollectIds(_, _, _, _)
CollectIds(ents, cit, i, ids) ==
    IF i > Len(cit) THEN [tag |-> "Ids", val |-> ids]
    ELSE IF ~(cit[i].key \in ents) THEN KeyNotFound(cit[i].key)
    ELSE IF cit[i].number = None THEN NoNumber(cit[i].key)
    ELSE CollectIds(ents, cit, i + 1,
                    Append(ids, <<cit[i].number[1], cit[i].supplement>>))

\* ids.sort_by(|(a, _), (b, _)| a.cmp(&b)): slice::sort_by is stable; an
\* insertion sort that puts each pair after the pairs not greater than it.
RECURSIVE InsertId(_, _)
InsertId(sorted, p) ==
    IF Len(sorted) = 0 THEN <<p>>
    ELSE IF sorted[Len(sorted)][1] <= p[1] THEN Append(sorted, p)
    ELSE Append(InsertId(SubSeq(sorted, 1, Len(sorted) - 1), p),
                sorted[Len(sorted)])

RECURSIVE sort_by_number(_)
sort_by_number(ids) ==
    IF Len(ids) = 0 THEN <<>>
    ELSE InsertId(sort_by_number(SubSeq(ids, 1, Len(ids) - 1)), ids[Len(ids)])

\* enum CiteElement
Range(start, end) == [tag |-> "Range", start |-> start, end |-> end, supp |-> None]
Single(n, s) == [tag |-> "Single", start |-> n, end |-> n, supp |-> s]

\* Mutant: the merge test looks at the last element's end whatever its kind,
\* so a number right after a supplemented one is merged into it.
CompactStep_MergeAny(res_elems, number, supplement) ==
    IF supplement # None
    THEN Append(res_elems, Single(number, supplement))
    ELSE IF /\ Len(res_elems) > 0
            /\ res_elems[Len(res_elems)].end = number - 1
    THEN Append(SubSeq(res_elems, 1, Len(res_elems) - 1),
                Range(res_elems[Len(res_elems)].start, number))
    ELSE Append(res_elems, Range(number, number))

\* One iteration of the compaction loop over the sorted ids. The inputs'
\* numbers are at least 1, so the usize subtraction number - 1 never wraps.
CompactStep(res_elems, number, supplement) ==
    IF supplement # None
    THEN Append(res_elems, Single(number, supplement))
    ELSE IF /\ Len(res_elems) > 0
            /\ res_elems[Len(res_elems)].tag = "Range"
            /\ res_elems[Len(res_elems)].end = number - 1
    THEN Append(SubSeq(res_elems, 1, Len(res_elems) - 1),
                Range(res_elems[Len(res_elems)].start, number))
    ELSE IF supplement # None
    THEN Append(res_elems, Single(number, supplement))
    ELSE Append(res_elems, Range(number, number))

RECURSIVE CompactLoop(_, _, _)
CompactLoop(ids, i, res_elems) ==
    IF i > Len(ids) THEN res_elems
    ELSE CompactLoop(ids, i + 1, CompactStep(res_elems, ids[i][1], ids[i][2]))

\* The closure of the final map.
FormatElem(e) ==
    IF e.tag = "Range" /\ e.start # e.end
    THEN to_string(e.start) \o <<"-">> \o to_string(e.end)
    ELSE IF e.tag = "Range" THEN to_string(e.start)
    ELSE IF e.supp # None
    THEN to_string(e.start) \o <<",", " ">> \o e.supp[1]
    ELSE to_string(e.start)

FormatElems(res_elems) == [k \in 1..Len(res_elems) |-> FormatElem(res_elems[k])]

NumericalCitationFormatter_get_reference(ents, cit) ==
    LET c == CollectIds(ents, cit, 1, <<>>) IN
    IF c.tag # "Ids" THEN c
    ELSE LET res_elems == CompactLoop(sort_by_number(c.val), 1, <<>>)
             re == str_join(FormatElems(res_elems), <<";", " ">>)
         IN Ok(<<"[">> \o re \o <<"]">>)

(***************************************************************************)
(* DisplayString: value (the text), formatting (the committed spans, each  *)
(* a Range<usize> with a Formatting) and pending_formatting (the spans     *)
(* opened and not yet committed, each a start with a Formatting).          *)
(***************************************************************************)
Formatting == {"Bold", "Italic", "NoHyphenation"}

FormatRange(start, end, f) == [start |-> start, end |-> end, f |-> f]
Pending(start, f) == [start |-> start, f |-> f]

\* Mutant: the range's end is left where it was.
offset_format_range_StartOnly(r, o) == FormatRange(r.start + o, r.end, r.f)

\* offset_format_range
offset_format_range(r, o) == FormatRange(r.start + o, r.end + o, r.f)

\* DisplayString::new()
DisplayString_new == [value |-> <<>>, formatting |-> <<>>, pending_formatting |-> <<>>]

\* DisplayString::from_str, DisplayString::from_string
from_str(s) == [value |-> s, formatting |-> <<>>, pending_formatting |-> <<>>]

\* DisplayString::len
len(self) == Len(self.value)

\* impl Add<&str> for DisplayString
add_str(self, other) == [self EXCEPT !.value = @ \o other]

\* impl AddAssign<&String>, impl AddAssign<&str> for DisplayString
add_assign_str(self, other) == [self EXCEPT !.value = @ \o other]

\* other.formatting.into_iter().map(|e| offset_format_range(e, self.value.len()))
OffsetAll(formatting, o) ==
    [k \in 1..Len(formatting) |-> offset_format_range(formatting[k], o)]

\* Mutant: the text is appended first, so the spans are moved by the new length.
add_self_OffsetAfterPush(self, other) ==
    [value |-> self.value \o other.value,
     formatting |-> self.formatting
                    \o OffsetAll(other.formatting, Len(self.value \o other.value)),
     pending_formatting |-> self.pending_formatting]

\* impl Add<Self> for DisplayString
add_self(self, other) ==
    [value |-> self.value \o other.value,
     formatting |-> self.formatting \o OffsetAll(other.formatting, Len(self.value)),
     pending_formatting |-> self.pending_formatting]

\* impl AddAssign<Self> for DisplayString
add_assign_self(self, other) ==
    [value |-> self.value \o other.value,
     formatting |-> self.formatting \o OffsetAll(other.formatting, Len(self.value)),
     pending_formatting |-> self.pending_formatting]

\* DisplayString::push
push(self, ch) == [self EXCEPT !.value = Append(@, ch)]

\* Mutant: all instead of any.
StartFormatAssertion_All(self, f) ==
    ~(\A k \in 1..Len(self.pending_formatting) : self.pending_formatting[k].f = f)

\* The condition of start_format's debug_assert!.
StartFormatAssertion(self, f) ==
    ~(\E k \in 1..Len(self.pending_formatting) : self.pending_formatting[k].f = f)

\* DisplayString::start_format, past its debug_assert!
start_format(self, f) ==
    [self EXCEPT !.pending_formatting = Append(@, Pending(len(self), f))]

\* DisplayString::commit_formats
commit_formats(self) ==
    [self EXCEPT
        !.formatting = @ \o [k \in 1..Len(self.pending_formatting) |->
                                FormatRange(self.pending_formatting[k].start,
                                            len(self),
                                            self.pending_formatting[k].f)],
        !.pending_formatting = <<>>]

\* DisplayString::add_if_some: item, prefix and postfix are Options.
add_if_some(self, item, prefix, postfix) ==
    IF item = None THEN self
    ELSE LET s1 == IF prefix # None THEN add_assign_str(self, prefix[1]) ELSE self
             s2 == add_assign_str(s1, item[1])
         IN IF postfix # None THEN add_assign_str(s2, postfix[1]) ELSE s2

\* Mutant: no separator is pushed before an empty item.
RECURSIVE JoinLoop_SkipEmpty(_, _, _, _)
JoinLoop_SkipEmpty(items, joiner_, i, res) ==
    IF i > Len(items) THEN res
    ELSE LET r1 == IF i # 1 /\ Len(items[i].value) > 0
                   THEN add_assign_str(res, joiner_) ELSE res
         IN JoinLoop_SkipEmpty(items, joiner_, i + 1, add_assign_self(r1, items[i]))

\* DisplayString::join: the loop from item i on, res being the value so far.
RECURSIVE JoinLoop(_, _, _, _)
JoinLoop(items, joiner_, i, res) ==
    IF i > Len(items) THEN res
    ELSE LET r1 == IF i # 1 THEN add_assign_str(res, joiner_) ELSE res
         IN JoinLoop(items, joiner_, i + 1, add_assign_self(r1, items[i]))

join(items, joiner_) == JoinLoop(items, joiner_, 1, DisplayString_new)

(***************************************************************************)
(* DisplayString::print_ansi_vt100                                         *)
(***************************************************************************)
\* The escape byte 0x1b.
ESC == "ESC"

\* The first loop: a start and an end event per span that is not NoHyphenation.
RECURSIVE StartEnd(_, _, _)
StartEnd(formatting, k, start_end) ==
    IF k > Len(formatting) THEN start_end
    ELSE IF formatting[k].f = "NoHyphenation"
    THEN StartEnd(formatting, k + 1, start_end)
    ELSE StartEnd(formatting, k + 1,
                  start_end \o <<[f |-> formatting[k].f, index |-> formatting[k].start, end |-> FALSE],
                                 [f |-> formatting[k].f, index |-> formatting[k].end, end |-> TRUE]>>)

\* start_end.sort_by(|a, b| a.1.cmp(&b.1).reverse()): stable, by index
\* descending; each event goes after the events whose index is not smaller.
RECURSIVE InsertEvent(_, _)
InsertEvent(sorted, e) ==
    IF Len(sorted) = 0 THEN <<e>>
    ELSE IF sorted[Len(sorted)].index >= e.index THEN Append(sorted, e)
    ELSE Append(InsertEvent(SubSeq(sorted, 1, Len(sorted) - 1), e),
                sorted[Len(sorted)])

RECURSIVE sort_events(_)
sort_events(evs) ==
    IF Len(evs) = 0 THEN <<>>
    ELSE InsertEvent(sort_events(SubSeq(evs, 1, Len(evs) - 1)), evs[Len(evs)])

\* &self.value[from .. to]: str slicing panics unless from <= to <= len.
SliceOk(value, from, to) == from <= to /\ to <= Len(value)
Slice(value, from, to) == SubSeq(value, from + 1, to)

\* Mutant: an end event repeats the kind's code instead of the reset code.
Code_NoReset(ev) ==
    IF ev.f = "Bold" THEN "1"
    ELSE "3"

Code(ev) ==
    IF ev.end THEN "0"
    ELSE IF ev.f = "Bold" THEN "1"
    ELSE "3"

\* format!("\x1b[{}m", code)
Marker(code) == <<ESC, "[", code, "m">>

Rendered(s) == [tag |-> "Ok", val |-> s]
SlicePanic == [tag |-> "Panic", val |-> <<>>]

\* The second loop and the final slice: the events from k on, with the
\* text assembled so far and the pointer.
RECURSIVE RenderLoop(_, _, _, _, _)
RenderLoop(value, evs, k, res, pointer) ==
    IF k > Len(evs)
    THEN IF SliceOk(value, 0, pointer)
         THEN Rendered(Slice(value, 0, pointer) \o res)
         ELSE SlicePanic
    ELSE IF ~SliceOk(value, evs[k].index, pointer) THEN SlicePanic
    ELSE RenderLoop(value, evs, k + 1,
                    Marker(Code(evs[k])) \o Slice(value, evs[k].index, pointer) \o res,
                    evs[k].index)

print_ansi_vt100(self) ==
    RenderLoop(self.value, sort_events(StartEnd(self.formatting, 1, <<>>)),
               1, <<>>, len(self))

(***************************************************************************)
(* The citation formatters' inputs, and the specification that applies the *)
(* two formatters to them.                                                 *)
(***************************************************************************)
SeqsUpTo(S, n) == UNION {[1..k -> S] : k \in 0..n}

Keys == {<<"a">>, <<"b">>}
Supplements == {None, Some(<<"p">>)}
Numbers == {None} \cup {Some(n) : n \in (NumBase + 1)..(NumBase + MaxNum)}
Atomics ==
    {AtomicCitation(k, s, n) : k \in Keys, s \in Supplements, n \in Numbers}

NoResult == [fmt |-> "none", res |-> Ok(<<>>)]

BuildIdle ==
    /\ ds = DisplayString_new
    /\ debug_assertions = TRUE
    /\ panicked = None
    /\ rendered = None

PureIdle ==
    /\ args = <<>>
    /\ joiner = <<>>
    /\ ret = [op |-> "none", val |-> DisplayString_new]

CiteIdle ==
    /\ entries = {}
    /\ citation = <<>>
    /\ result = NoResult

InitCite ==
    /\ entries \in SUBSET Keys
    /\ citation \in SeqsUpTo(Atomics, MaxCite)
    /\ result = NoResult
    /\ BuildIdle
    /\ PureIdle

KeyGetReference ==
    /\ result.fmt = "none"
    /\ result' = [fmt |-> "key",
                  res |-> KeyCitationFormatter_get_reference(entries, citation)]
    /\ UNCHANGED <<entries, citation, buildVars, pureVars>>

NumericalGetReference ==
    /\ result.fmt = "none"
    /\ result' = [fmt |-> "numerical",
                  res |-> NumericalCitationFormatter_get_reference(entries, citation)]
    /\ UNCHANGED <<entries, citation, buildVars, pureVars>>

NextCite == KeyGetReference \/ NumericalGetReference

SpecCite == InitCite /\ [][NextCite]_vars

(***************************************************************************)
(* Claims about the citation formatters (checked under SpecCite).          *)
(***************************************************************************)
Idx == 1..Len(citation)
Absent(i) == ~(citation[i].key \in entries)
AllKnown == \A i \in Idx : ~Absent(i)
AllNumbered == \A i \in Idx : citation[i].number # None /\ citation[i].number[1] >= 1
Min(S) == CHOOSE x \in S : \A y \in S : x <= y
Max(S) == CHOOSE x \in S : \A y \in S : y <= x

\* The reference compaction of C1, stated without the code's element list.
\* The (number, supplement) pairs in input order.
RefPairs == [i \in Idx |-> [num |-> citation[i].number[1], supp |-> citation[i].supplement]]

\* Stable ascending sort: for each number in ascending order, the pairs that
\* carry it, in input order.
RECURSIVE RefBuckets(_, _, _)
RefBuckets(pairs, n, hi) ==
    IF n > hi THEN <<>>
    ELSE LET Carries(p) == p.num = n
         IN SelectSeq(pairs, Carries) \o RefBuckets(pairs, n + 1, hi)

RefSorted ==
    IF Len(citation) = 0 THEN <<>>
    ELSE LET nums == {RefPairs[i].num : i \in Idx}
         IN RefBuckets(RefPairs, Min(nums), Max(nums))

\* Position k of the sorted pairs extends the element emitted before it: it
\* has no supplement and that element is a range ending at its number - 1.
\* The element emitted before it is a range exactly when pair k - 1 has no
\* supplement, and that range ends at pair k - 1's number.
RefExtends(sorted, k) ==
    /\ k > 1
    /\ sorted[k].supp = None
    /\ sorted[k - 1].supp = None
    /\ sorted[k].num = sorted[k - 1].num + 1

\* The last position of the element that starts at position k.
RefLast(sorted, k) ==
    Max({j \in k..Len(sorted) : \A m \in (k + 1)..j : RefExtends(sorted, m)})

RefPrint(sorted, k) ==
    IF sorted[k].supp # None
    THEN to_string(sorted[k].num) \o <<",", " ">> \o sorted[k].supp[1]
    ELSE IF sorted[RefLast(sorted, k)].num = sorted[k].num
    THEN to_string(sorted[k].num)
    ELSE to_string(sorted[k].num) \o <<"-">> \o to_string(sorted[RefLast(sorted, k)].num)

\* The printed elements from position k on, each after the first preceded by "; ".
RECURSIVE RefTail(_, _, _)
RefTail(sorted, k, first) ==
    IF k > Len(sorted) THEN <<>>
    ELSE (IF first THEN <<>> ELSE <<";", " ">>)
         \o RefPrint(sorted, k)
         \o RefTail(sorted, RefLast(sorted, k) + 1, FALSE)

RefMarker == <<"[">> \o RefTail(RefSorted, 1, TRUE) \o <<"]">>

\* C1: when every key is known and every item has a number >= 1, the
\* numerical formatter's marker is the reference compaction: pairs stably
\* sorted by number, a supplemented pair always its own "number, supplement"
\* element, an unsupplemented pair extending the previous element only when
\* that is a range ending at number - 1, ranges printed as "n" or
\* "start-end", joined with "; " inside "[" and "]".
C1_NumericCompaction ==
    (result.fmt = "numerical" /\ AllKnown /\ AllNumbered)
        => result.res = Ok(RefMarker)

\* C1's case: out-of-order input 10, 11 (p), 9 is sorted, 9 and 10 merge,
\* and the supplemented 11 stays alone although it follows 10.
C1_Witness ==
    /\ result.fmt = "numerical"
    /\ AllKnown
    /\ Len(citation) = 3
    /\ citation[1].number = Some(10) /\ citation[1].supplement = None
    /\ citation[2].number = Some(11) /\ citation[2].supplement = Some(<<"p">>)
    /\ citation[3].number = Some(9) /\ citation[3].supplement = None
    /\ result.res = Ok(<<"[", "9", "-", "1", "0", ";", " ", "1", "1", ",", " ", "p", "]">>)

FirstAbsent == Min({i \in Idx : Absent(i)})

\* C2 as stated: with at least one absent key, both formatters return
\* KeyNotFound carrying the first absent key.
C2_Original ==
    (result.fmt # "none" /\ ~AllKnown)
        => result.res = KeyNotFound(citation[FirstAbsent].key)

\* The items before the first absent key that have no number.
Unnumbered == {j \in 1..(FirstAbsent - 1) : citation[j].number = None}

\* C2 (amended): with at least one absent key no marker is returned; the key
\* formatter returns KeyNotFound carrying the first absent key, and so does
\* the numerical formatter unless an item before that key has no number, in
\* which case it returns NoNumber carrying the key of the first such item.
C2_Amended ==
    (result.fmt # "none" /\ ~AllKnown)
        => /\ result.res.tag # "Ok"
           /\ IF result.fmt = "numerical" /\ Unnumbered # {}
              THEN result.res = NoNumber(citation[Min(Unnumbered)].key)
              ELSE result.res = KeyNotFound(citation[FirstAbsent].key)

\* C2's case: the first two items carry two different absent keys and the
\* third has no number; the numerical formatter reports the first key.
C2_Witness ==
    /\ result.fmt = "numerical"
    /\ Len(citation) = 3
    /\ Absent(1) /\ Absent(2) /\ citation[1].key # citation[2].key
    /\ citation[3].number = None
    /\ result.res = KeyNotFound(citation[1].key)

Offending(i) ==
    Absent(i) \/ (result.fmt = "numerical" /\ citation[i].number = None)
FirstOffending == Min({i \in Idx : Offending(i)})

\* C3: a formatter's result is an error exactly when some item is offending
\* (key absent; for the numerical formatter also number missing); the error
\* is the earliest offending item's, carries that item's key, and is
\* KeyNotFound when that item's key is absent (also when its number is
\* missing too), so later items have no influence; otherwise it is a marker.
C3_FailFast ==
    result.fmt # "none"
        => IF \A i \in Idx : ~Offending(i)
           THEN result.res.tag = "Ok"
           ELSE result.res =
                    (IF Absent(FirstOffending)
                     THEN KeyNotFound(citation[FirstOffending].key)
                     ELSE NoNumber(citation[FirstOffending].key))

\* C3's case: the earliest offending item has an absent key and no number,
\* and a later item with another, known key has no number either.
C3_Witness ==
    /\ result.fmt = "numerical"
    /\ Len(citation) = 3
    /\ ~Offending(1)
    /\ Absent(2) /\ citation[2].number = None
    /\ ~Absent(3) /\ citation[3].number = None
    /\ result.res = KeyNotFound(citation[2].key)

\* The key formatter's marker, built from the last item backwards and without
\* reading the number field.
RECURSIVE RefKeyMarker(_)
RefKeyMarker(cit) ==
    IF Len(cit) = 0 THEN <<>>
    ELSE LET last == cit[Len(cit)]
             body == IF last.supplement = None THEN last.key
                     ELSE last.key \o <<" ", "(">> \o last.supplement[1] \o <<")">>
         IN IF Len(cit) = 1 THEN body
            ELSE RefKeyMarker(SubSeq(cit, 1, Len(cit) - 1)) \o <<",", " ">> \o body

\* C7: when every key is known, the key formatter returns the items in input
\* order, each as "key" or "key (supplement)", joined with ", ", whatever
\* the number fields are.
C7_KeyMarker ==
    (result.fmt = "key" /\ AllKnown) => result.res = Ok(RefKeyMarker(citation))

\* C7's case: keys out of alphabetical order and repeated, one supplement,
\* numbers that would sort the other way.
C7_Witness ==
    /\ result.fmt = "key"
    /\ Len(citation) = 3
    /\ citation[1].key = <<"b">> /\ citation[1].supplement = Some(<<"p">>)
    /\ citation[1].number = Some(11)
    /\ citation[2].key = <<"a">> /\ citation[2].supplement = None
    /\ citation[2].number = Some(9)
    /\ citation[3].key = <<"b">> /\ citation[3].supplement = None
    /\ citation[3].number = None
    /\ result.res = Ok(<<"b", " ", "(", "p", ")", ",", " ", "a", ",", " ", "b">>)

(***************************************************************************)
(* Building a DisplayString: the specification Spec applies the type's     *)
(* operations, in any order, to a value that starts empty or string-built. *)
(* A build either evaluates debug_assert! (debug) or does not (release).   *)
(***************************************************************************)
\* The other DisplayStrings a concatenation takes: each one is what new or
\* from_str, start_format, push and commit_formats build.
OperandTexts == {<<>>, <<"a">>}
OperandFormats(t) ==
    {<<>>, <<FormatRange(0, Len(t), "Bold")>>, <<FormatRange(0, 0, "Italic")>>,
     <<FormatRange(Len(t), Len(t), "NoHyphenation")>>}
BuildOperands ==
    UNION {{[value |-> t, formatting |-> fs, pending_formatting |-> <<>>] :
                fs \in OperandFormats(t)} : t \in OperandTexts}
    \cup {[value |-> <<"a">>, formatting |-> <<>>,
           pending_formatting |-> <<Pending(1, "Italic")>>]}

Chars == {"a"}
StrInputs == {<<"a">>, <<"a", "a">>}
Joiners == {<<";">>}

Fits(x) ==
    /\ Len(x.value) <= MaxLen
    /\ Len(x.formatting) + Len(x.pending_formatting) <= MaxSpans

Alive == panicked = None

Init ==
    /\ ds \in {DisplayString_new, from_str(<<"a">>)}
    /\ debug_assertions \in BOOLEAN
    /\ panicked = None
    /\ rendered = None
    /\ CiteIdle
    /\ PureIdle

\* self = self + other for a &str
AddStr(s) ==
    /\ Alive
    /\ Fits(add_str(ds, s))
    /\ ds' = add_str(ds, s)
    /\ rendered' = None
    /\ UNCHANGED <<debug_assertions, panicked, citeVars, pureVars>>

\* self += other for a &str or a &String
AddAssignStr(s) ==
    /\ Alive
    /\ Fits(add_assign_str(ds, s))
    /\ ds' = add_assign_str(ds, s)
    /\ rendered' = None
    /\ UNCHANGED <<debug_assertions, panicked, citeVars, pureVars>>

Push(ch) ==
    /\ Alive
    /\ Fits(push(ds, ch))
    /\ ds' = push(ds, ch)
    /\ rendered' = None
    /\ UNCHANGED <<debug_assertions, panicked, citeVars, pureVars>>

AddIfSome(item, prefix, postfix) ==
    /\ Alive
    /\ Fits(add_if_some(ds, item, prefix, postfix))
    /\ ds' = add_if_some(ds, item, prefix, postfix)
    /\ rendered' = None
    /\ UNCHANGED <<debug_assertions, panicked, citeVars, pureVars>>

\* self = self + other for a DisplayString
AddSelf(other) ==
    /\ Alive
    /\ Fits(add_self(ds, other))
    /\ ds' = add_self(ds, other)
    /\ rendered' = None
    /\ UNCHANGED <<debug_assertions, panicked, citeVars, pureVars>>

\* self += other for a DisplayString
AddAssignSelf(other) ==
    /\ Alive
    /\ Fits(add_assign_self(ds, other))
    /\ ds' = add_assign_self(ds, other)
    /\ rendered' = None
    /\ UNCHANGED <<debug_assertions, panicked, citeVars, pureVars>>

\* start_format: in a debug build the failing debug_assert! panics before
\* anything is pushed; a release build does not evaluate it.
StartFormat(f) ==
    /\ Alive
    /\ IF debug_assertions /\ ~StartFormatAssertion(ds, f)
       THEN panicked' = Some(f) /\ ds' = ds
       ELSE /\ Fits(start_format(ds, f))
            /\ panicked' = panicked
            /\ ds' = start_format(ds, f)
    /\ rendered' = None
    /\ UNCHANGED <<debug_assertions, citeVars, pureVars>>

CommitFormats ==
    /\ Alive
    /\ ds' = commit_formats(ds)
    /\ rendered' = None
    /\ UNCHANGED <<debug_assertions, panicked, citeVars, pureVars>>

\* self = DisplayString::join(items, joiner), the items being self and
\* other DisplayStrings.
Join(items, j) ==
    /\ Alive
    /\ Fits(join(items, j))
    /\ ds' = join(items, j)
    /\ rendered' = None
    /\ UNCHANGED <<debug_assertions, panicked, citeVars, pureVars>>

PrintAnsi ==
    /\ Alive
    /\ rendered' = Some(print_ansi_vt100(ds))
    /\ UNCHANGED <<ds, debug_assertions, panicked, citeVars, pureVars>>

JoinItems == SeqsUpTo({ds, from_str(<<"a">>)}, MaxItems)

Next ==
    \/ \E s \in StrInputs : AddStr(s)
    \/ \E s \in StrInputs : AddAssignStr(s)
    \/ \E ch \in Chars : Push(ch)
    \/ \E item \in {None, Some(<<"a">>)}, prefix \in {None, Some(<<"a">>)},
          postfix \in {None, Some(<<"a">>)} : AddIfSome(item, prefix, postfix)
    \/ \E other \in BuildOperands : AddSelf(other)
    \/ \E other \in BuildOperands : AddAssignSelf(other)
    \/ \E f \in Formatting : StartFormat(f)
    \/ CommitFormats
    \/ \E items \in JoinItems, j \in Joiners : Join(items, j)
    \/ PrintAnsi

Spec == Init /\ [][Next]_vars

(***************************************************************************)
(* Claims about a DisplayString under construction (checked under Spec).   *)
(***************************************************************************)
PendingOf(x, f) == {k \in 1..Len(x.pending_formatting) : x.pending_formatting[k].f = f}

\* C9 as stated: at most one pending span per formatting kind, in every
\* reachable state.
C9_Original == \A f \in Formatting : Cardinality(PendingOf(ds, f)) <= 1

\* C9 (amended): in a build that evaluates debug_assert! the pending set
\* holds at most one pending span per kind, and a start_format(kind) that
\* failed found kind pending and added nothing: kind is pending exactly once.
C9_Amended ==
    debug_assertions
        => /\ \A f \in Formatting : Cardinality(PendingOf(ds, f)) <= 1
           /\ panicked # None => Cardinality(PendingOf(ds, panicked[1])) = 1

\* C9's case: Bold was opened, committed, opened again, and the next
\* start_format(Bold) failed.
C9_Witness ==
    /\ debug_assertions
    /\ panicked = Some("Bold")
    /\ \E k \in 1..Len(ds.formatting) : ds.formatting[k].f = "Bold"
    /\ Cardinality(PendingOf(ds, "Bold")) = 1

\* C10: every committed span has 0 <= start <= end <= len(text), every
\* pending span has start <= len(text), and print_ansi_vt100 never slices
\* the text out of order or past its end.
C10_SpansWithinText ==
    /\ \A k \in 1..Len(ds.formatting) :
          /\ 0 <= ds.formatting[k].start
          /\ ds.formatting[k].start <= ds.formatting[k].end
          /\ ds.formatting[k].end <= len(ds)
    /\ \A k \in 1..Len(ds.pending_formatting) :
          ds.pending_formatting[k].start <= len(ds)
    /\ rendered # None => rendered[1].tag = "Ok"

\* C10's case: a span moved by a concatenation ends at the end of the
\* text, another span is still pending, and the value was rendered.
C10_Witness ==
    /\ ds.value = <<"a", "a">>
    /\ ds.formatting = <<FormatRange(1, 2, "Bold")>>
    /\ ds.pending_formatting = <<Pending(0, "Italic")>>
    /\ rendered # None

\* A terminal reading the rendered text: a marker with code 1 or 3 switches
\* that kind on, a marker with code 0 switches every kind off, any other
\* character is displayed with the kinds that are on.
RECURSIVE Terminal(_, _, _)
Terminal(out, i, on) ==
    IF i > Len(out) THEN <<>>
    ELSE IF out[i] = ESC
    THEN Terminal(out, i + 4,
                  IF out[i + 2] = "1" THEN on \cup {"Bold"}
                  ELSE IF out[i + 2] = "3" THEN on \cup {"Italic"}
                  ELSE {})
    ELSE <<[ch |-> out[i], on |-> on]>> \o Terminal(out, i + 1, on)

\* The committed Bold and Italic spans.
Shown(x) == {k \in 1..Len(x.formatting) : x.formatting[k].f # "NoHyphenation"}

NonOverlapping(x) ==
    \A j, k \in Shown(x) :
        j # k => \/ x.formatting[j].end <= x.formatting[k].start
                 \/ x.formatting[k].end <= x.formatting[j].start

\* The spans that contain the character at offset p.
Around(x, p) ==
    {k \in Shown(x) : x.formatting[k].start <= p /\ p < x.formatting[k].end}

\* C8: when the committed Bold/Italic spans are pairwise non-overlapping, a
\* terminal displays every character inside a span with that span's kind
\* on and every character outside all spans with no kind on.
C8_TerminalView ==
    (rendered # None /\ rendered[1].tag = "Ok" /\ NonOverlapping(ds))
        => LET shown == Terminal(rendered[1].val, 1, {})
           IN /\ Len(shown) = len(ds)
              /\ \A p \in 1..len(ds) :
                    /\ shown[p].ch = ds.value[p]
                    /\ \A k \in Around(ds, p - 1) : ds.formatting[k].f \in shown[p].on
                    /\ Around(ds, p - 1) = {} => shown[p].on = {}

(***************************************************************************)
(* Rendering on its own: SpecRender applies print_ansi_vt100 to every      *)
(* DisplayString, within the bounds, whose committed spans lie within the  *)
(* text (formatting is a public field: the spans may overlap in any way).  *)
(***************************************************************************)
RenderChars == {"a", "m"}
SpansWithin(n) ==
    {FormatRange(a, b, f) : a \in 0..n, b \in 0..n, f \in Formatting}
RenderSpans(t) == {r \in SpansWithin(Len(t)) : r.start <= r.end}
\* Pending spans are drawn only beside an empty formatting list.
RenderPendings(fs) ==
    IF fs = <<>> THEN {<<>>, <<Pending(0, "Bold")>>} ELSE {<<>>}

InitRender ==
    /\ \E t \in SeqsUpTo(RenderChars, MaxLen) :
          \E fs \in SeqsUpTo(RenderSpans(t), MaxSpans) :
             \E ps \in RenderPendings(fs) :
                ds = [value |-> t, formatting |-> fs, pending_formatting |-> ps]
    /\ debug_assertions = TRUE
    /\ panicked = None
    /\ rendered = None
    /\ CiteIdle
    /\ PureIdle

NextRender == PrintAnsi

SpecRender == InitRender /\ [][NextRender]_vars

\* The rendered text read back: its escape markers, each with its code and
\* the number of text characters before it, and the text without them.
RECURSIVE Markers(_, _, _)
Markers(out, i, offset) ==
    IF i > Len(out) THEN <<>>
    ELSE IF out[i] = ESC /\ i + 3 <= Len(out) /\ out[i + 1] = "[" /\ out[i + 3] = "m"
    THEN <<[code |-> out[i + 2], at |-> offset]>> \o Markers(out, i + 4, offset)
    ELSE Markers(out, i + 1, offset + 1)

RECURSIVE Stripped(_, _)
Stripped(out, i) ==
    IF i > Len(out) THEN <<>>
    ELSE IF out[i] = ESC /\ i + 3 <= Len(out) /\ out[i + 1] = "[" /\ out[i + 3] = "m"
    THEN Stripped(out, i + 4)
    ELSE <<out[i]>> \o Stripped(out, i + 1)

CountMarkers(ms, code, at) ==
    Cardinality({k \in 1..Len(ms) : ms[k].code = code /\ ms[k].at = at})

PoolTexts == {<<>>, <<"a">>, <<"b", "c">>}
PoolFormats(t) ==
    {<<>>, <<FormatRange(0, Len(t), "Bold")>>,
     <<FormatRange(0, 0, "Italic"), FormatRange(0, Len(t), "NoHyphenation")>>}
PoolPendings(t) == {<<>>, <<Pending(Len(t), "Italic")>>}
Pool ==
    UNION {{[value |-> t, formatting |-> fs, pending_formatting |-> ps] :
                fs \in PoolFormats(t), ps \in PoolPendings(t)} : t \in PoolTexts}
PoolJoiners == {<<";">>, <<",", " ">>}

NoRet == [op |-> "none", val |-> DisplayString_new]

InitConcat ==
    /\ args \in SeqsUpTo(Pool, MaxArgs)
    /\ joiner \in PoolJoiners
    /\ ret = NoRet
    /\ CiteIdle
    /\ BuildIdle

\* args[1] + args[2]
ConcatAdd ==
    /\ ret.op = "none"
    /\ Len(args) = 2
    /\ ret' = [op |-> "add", val |-> add_self(args[1], args[2])]
    /\ UNCHANGED <<args, joiner, citeVars, buildVars>>

\* args[1] += args[2]
ConcatAddAssign ==
    /\ ret.op = "none"
    /\ Len(args) = 2
    /\ ret' = [op |-> "add_assign", val |-> add_assign_self(args[1], args[2])]
    /\ UNCHANGED <<args, joiner, citeVars, buildVars>>

\* DisplayString::join(&args, joiner)
ConcatJoin ==
    /\ ret.op = "none"
    /\ ret' = [op |-> "join", val |-> join(args, joiner)]
    /\ UNCHANGED <<args, joiner, citeVars, buildVars>>

NextConcat == ConcatAdd \/ ConcatAddAssign \/ ConcatJoin

SpecConcat == InitConcat /\ [][NextConcat]_vars

\* C4: after a + b or a += b with b having no pending spans, the text is a's
\* text followed by b's; a's committed spans are unchanged and keep their
\* positions; b's committed spans follow them, each with the same kind and
\* with start and end moved by len(a); a's pending spans are unchanged.
C4_SpanOffset ==
    (ret.op \in {"add", "add_assign"} /\ args[2].pending_formatting = <<>>)
        => LET a == args[1]
               b == args[2]
               r == ret.val
               na == Len(a.formatting)
           IN /\ r.value = a.value \o b.value
              /\ Len(r.formatting) = na + Len(b.formatting)
              /\ \A k \in 1..na : r.formatting[k] = a.formatting[k]
              /\ \A k \in 1..Len(b.formatting) :
                    /\ r.formatting[na + k].f = b.formatting[k].f
                    /\ r.formatting[na + k].start = b.formatting[k].start + Len(a.value)
                    /\ r.formatting[na + k].end = b.formatting[k].end + Len(a.value)
              /\ r.pending_formatting = a.pending_formatting

\* C4's case: a has text, a committed and a pending span; b has two spans.
C4_Witness ==
    /\ ret.op = "add_assign"
    /\ args[1] = [value |-> <<"b", "c">>,
                  formatting |-> <<FormatRange(0, 2, "Bold")>>,
                  pending_formatting |-> <<Pending(2, "Italic")>>]
    /\ args[2] = [value |-> <<"a">>,
                  formatting |-> <<FormatRange(0, 0, "Italic"),
                                   FormatRange(0, 1, "NoHyphenation")>>,
                  pending_formatting |-> <<>>]
    /\ ret.val = [value |-> <<"b", "c", "a">>,
                  formatting |-> <<FormatRange(0, 2, "Bold"), FormatRange(2, 2, "Italic"),
                                   FormatRange(2, 3, "NoHyphenation")>>,
                  pending_formatting |-> <<Pending(2, "Italic")>>]

Texts(items) == [k \in 1..Len(items) |-> items[k].value]
NonEmptyText(t) == Len(t) > 0

\* C6 as stated: the separator stands between consecutive non-empty items
\* only.
C6_Original ==
    ret.op = "join"
        => ret.val.value = str_join(SelectSeq(Texts(args), NonEmptyText), joiner)

\* Where item k's text starts in the joined text when a separator stands
\* between every two consecutive items.
RECURSIVE ItemOffset(_, _, _)
ItemOffset(items, sep, k) ==
    IF k = 1 THEN 0
    ELSE ItemOffset(items, sep, k - 1) + Len(items[k - 1].value) + Len(sep)

\* The committed spans of items k.., each moved to its item's offset.
RECURSIVE MovedSpans(_, _, _)
MovedSpans(items, sep, k) ==
    IF k > Len(items) THEN <<>>
    ELSE [j \in 1..Len(items[k].formatting) |->
             FormatRange(items[k].formatting[j].start + ItemOffset(items, sep, k),
                         items[k].formatting[j].end + ItemOffset(items, sep, k),
                         items[k].formatting[j].f)]
         \o MovedSpans(items, sep, k + 1)

\* C6 (amended): join returns the items concatenated in order with the
\* separator between every two consecutive items, empty or not (one
\* separator fewer than items); the separator carries no span, each item's
\* committed spans move with its text, nothing is pending, and an empty
\* list gives an empty value.
C6_Amended ==
    ret.op = "join"
        => LET r == ret.val
               n == Len(args)
           IN /\ n = 0 => r = DisplayString_new
              /\ n > 0 => Len(r.value) = ItemOffset(args, joiner, n) + Len(args[n].value)
              /\ \A k \in 1..n : \A i \in 1..Len(args[k].value) :
                    r.value[ItemOffset(args, joiner, k) + i] = args[k].value[i]
              /\ \A k \in 2..n : \A i \in 1..Len(joiner) :
                    r.value[ItemOffset(args, joiner, k) - Len(joiner) + i] = joiner[i]
              /\ r.formatting = MovedSpans(args, joiner, 1)
              /\ r.pending_formatting = <<>>

\* C6's case: an empty item between two non-empty ones.
C6_Witness ==
    /\ ret.op = "join"
    /\ joiner = <<";">>
    /\ Len(args) = 3
    /\ args[1].value = <<"a">>
    /\ args[2].value = <<>>
    /\ args[3].value = <<"b", "c">> /\ args[3].formatting = <<FormatRange(0, 2, "Bold")>>
    /\ ret.val.value = <<"a", ";", ";", "b", "c">>
    /\ ret.val.formatting = args[1].formatting \o args[2].formatting
                            \o <<FormatRange(3, 5, "Bold")>>

====
